---- MODULE Spec2Model ----
(***************************************************************************)
(* PD_Algorithm of main.py: the subset dynamic programme for the single    *)
(* machine total weighted tardiness problem (tasks with execution time p,  *)
(* weight w and deadline d), modelled one loop iteration at a time,        *)
(* together with its helpers getTaskPenalty, getTotalTime and getPenalty.  *)
(* Python lists are 0-based; `data` is a TLA+ sequence, so data[k] of the  *)
(* code is data[k+1] here.  table and table_order are functions on the     *)
(* masks 0..2^N-1.  Python integers are unbounded, so are the model's.     *)
(***************************************************************************)
EXTENDS Integers, Sequences, FiniteSets

\* Bounds of the explored inputs.
MaxN == 2
MaxP == 1
MaxW == 1
MaxD == 1
\* Number of consecutive calls of PD_Algorithm on the same data (testMultiple).
MaxSolves == 2

VARIABLES data, table, table_order, i, j, k, index, time, pc, results

vars == <<data, table, table_order, i, j, k, index, time, pc, results>>

-----------------------------------------------------------------------------
\* Inputs

Task(id, p, w, d) == [id |-> id, p |-> p, w |-> w, d |-> d]

\* readData: the task at position n (0-based) of the file gets id n.
TaskId(pos) == pos

Params == [p : 0..MaxP, w : 0..MaxW, d : 0..MaxD]

WithIds(ps) == [n \in 1..Len(ps) |-> Task(TaskId(n - 1), ps[n].p, ps[n].w, ps[n].d)]

JobSets == UNION {{WithIds(ps) : ps \in [1..n -> Params]} : n \in 0..MaxN}

\* The three-job scenario: Job0(p=4,w=1,d=4), Job1(p=2,w=2,d=1), Job2(p=3,w=1,d=6).
Scenario == WithIds(<<[p |-> 4, w |-> 1, d |-> 4], [p |-> 2, w |-> 2, d |-> 1],
                      [p |-> 3, w |-> 1, d |-> 6]>>)

\* Three tasks with identical parameters, all late: every order is optimal.
TieScenario == WithIds(<<[p |-> 1, w |-> 1, d |-> 0], [p |-> 1, w |-> 1, d |-> 0],
                         [p |-> 1, w |-> 1, d |-> 0]>>)

\* The job sets a call is explored on.
Inputs == JobSets \cup {Scenario, TieScenario}

-----------------------------------------------------------------------------
\* Pure helpers

Pow2(n) == 2 ^ n

\* (1 << b) & mask, as a truth value.
BitSet(mask, b) == (mask \div Pow2(b)) % 2 = 1

\* i & j for j a power of two.
AndBit(mask, bit) == (mask \div bit) % 2 = 1

\* math.inf and the finite penalties, as table entries.
Inf == [inf |-> TRUE, val |-> 0]
Fin(v) == [inf |-> FALSE, val |-> v]

\* table[i] > penalty, where table[i] may be math.inf.
Greater(entry, penalty) == entry.inf \/ entry.val > penalty

\* table[i] == penalty.
Equal(entry, penalty) == ~entry.inf /\ entry.val = penalty

getTaskPenalty(task, t) == IF t > task.d THEN task.w * (t - task.d) ELSE 0

RECURSIVE TimeUpTo(_, _, _)
TimeUpTo(tasks, orderID, n) ==
  IF n = 0 THEN 0
  ELSE TimeUpTo(tasks, orderID, n - 1)
       + (IF BitSet(orderID, n - 1) THEN tasks[n].p ELSE 0)

\* Variation: the mask test of line 117 is dropped, every task is counted.
TotalTimeAll(tasks, orderID) == TimeUpTo(tasks, Pow2(Len(tasks)) - 1, Len(tasks))

getTotalTime(tasks, orderID) == TimeUpTo(tasks, orderID, Len(tasks))

\* getPenalty: run the tasks in the given order from time 0.
RECURSIVE PenaltyFrom(_, _, _)
PenaltyFrom(tasks, n, t) ==
  IF n > Len(tasks) THEN 0
  ELSE getTaskPenalty(tasks[n], t + tasks[n].p)
       + PenaltyFrom(tasks, n + 1, t + tasks[n].p)

\* Variation: the empty sequence is reported with a sentinel instead of 0.
getPenaltyEmptySentinel(tasks) ==
  IF Len(tasks) < 1 THEN -1 ELSE PenaltyFrom(tasks, 1, 0)

getPenalty(tasks) == IF Len(tasks) < 1 THEN 0 ELSE PenaltyFrom(tasks, 1, 0)

\* np.array(data)[order]: the tasks at the positions listed in order.
Reorder(tasks, order) == [n \in 1..Len(order) |-> tasks[order[n] + 1]]

\* Python's list comparison a > b: the first differing element decides; if
\* one list is a prefix of the other, the longer one is the greater.
RECURSIVE ListGreaterFrom(_, _, _)
ListGreaterFrom(a, b, n) ==
  IF n > Len(a) THEN FALSE
  ELSE IF n > Len(b) THEN TRUE
  ELSE IF a[n] # b[n] THEN a[n] > b[n]
  ELSE ListGreaterFrom(a, b, n + 1)

Reverse(s) == [n \in 1..Len(s) |-> s[Len(s) + 1 - n]]

\* Variation: the lists are compared from their last element backwards.
ListGreaterFromEnd(a, b) == ListGreaterFrom(Reverse(a), Reverse(b), 1)

ListGreater(a, b) == ListGreaterFrom(a, b, 1)

\* Variation: the table is kept between calls (a module-level table that is
\* allocated only when its size changes).
StaleTable(n) ==
  IF DOMAIN table = 0..(Pow2(n) - 1)
  THEN table
  ELSE [m \in 0..(Pow2(n) - 1) |-> IF m = 0 THEN [inf |-> FALSE, val |-> 0]
                                             ELSE [inf |-> TRUE, val |-> 0]]

\* Variation: every entry starts at math.inf, table[0] included.
NewTableAllInf(n) == [m \in 0..(Pow2(n) - 1) |-> Inf]

\* table = [0] + [math.inf for _ in range(2**N-1)]
NewTable(n) == [m \in 0..(Pow2(n) - 1) |-> IF m = 0 THEN Fin(0) ELSE Inf]

\* table_order = [[] for _ in range(2**N)]
NewTableOrder(n) == [m \in 0..(Pow2(n) - 1) |-> <<>>]

\* Variation: the penalty of the predecessor mask is not added.
CandidatePenaltyNoPrev(tasks, tbl, mask, bit, pos, t) ==
  getTaskPenalty(tasks[pos + 1], t)

\* penalty of the candidate "task k last" of mask i: lines 148-151.
CandidatePenalty(tasks, tbl, mask, bit, pos, t) ==
  LET prev == tbl[mask - bit]
      penalty == getTaskPenalty(tasks[pos + 1], t)
  IN IF ~prev.inf THEN penalty + prev.val ELSE penalty

\* Variation: the operands of the list comparison are swapped.
TieReplacesGreater(tbl, ord, mask, bit, penalty) ==
  Equal(tbl[mask], penalty) /\ ListGreater(ord[mask - bit], ord[mask])

\* The tie-break test of line 157.
TieReplaces(tbl, ord, mask, bit, penalty) ==
  Equal(tbl[mask], penalty) /\ ListGreater(ord[mask], ord[mask - bit])

\* Variation: the predecessor's list is not copied into table_order[i].
CopyOrderNone(ord, mask, bit) == ord

\* table_order[i] = table_order[i-j][:]  (a copy of the predecessor's list)
CopyOrder(ord, mask, bit) == [ord EXCEPT ![mask] = ord[mask - bit]]

\* Variation: table_order[i] is the predecessor's list itself, not a copy, so
\* the append reaches the predecessor's entry too.
AppendIdAliased(ord, mask, id) ==
  [m \in DOMAIN ord |->
     IF m = mask \/ m = mask - Pow2(index) THEN Append(ord[m], id) ELSE ord[m]]

\* table_order[i].append(data[index].id)
AppendId(ord, mask, id) == [ord EXCEPT ![mask] = Append(@, id)]

\* table_order[-1]
LastOrder(ord) == ord[Pow2(Len(data)) - 1]

-----------------------------------------------------------------------------
\* The state machine

N == Len(data)

NoTable == [m \in {} |-> 0]

Init ==
  /\ data \in Inputs
  /\ table = NoTable
  /\ table_order = NoTable
  /\ i = 0 /\ j = 0 /\ k = 0 /\ index = 0 /\ time = 0
  /\ pc = "start"
  /\ results = <<>>

\* Lines 139-141: a call allocates its tables.
Start ==
  /\ pc = "start"
  /\ table' = NewTable(N)
  /\ table_order' = NewTableOrder(N)
  /\ i' = 1
  /\ pc' = "outer"
  /\ UNCHANGED <<data, j, k, index, time, results>>

\* Lines 143-145: the next mask of the outer loop.
OuterBegin ==
  /\ pc = "outer"
  /\ i < Pow2(N)
  /\ time' = getTotalTime(data, i)
  /\ k' = 0 /\ j' = 1 /\ index' = 0
  /\ pc' = "inner"
  /\ UNCHANGED <<data, table, table_order, i, results>>

\* Lines 146-147, 160-161: bit j is not in mask i.
InnerSkip ==
  /\ pc = "inner"
  /\ j <= i
  /\ ~AndBit(i, j)
  /\ j' = 2 * j /\ k' = k + 1
  /\ UNCHANGED <<data, table, table_order, i, index, time, pc, results>>

\* Lines 148-156: the candidate is strictly better than the kept one.
InnerImprove ==
  /\ pc = "inner"
  /\ j <= i
  /\ AndBit(i, j)
  /\ LET penalty == CandidatePenalty(data, table, i, j, k, time)
     IN /\ Greater(table[i], penalty)
        /\ table' = [table EXCEPT ![i] = Fin(penalty)]
        /\ table_order' = CopyOrder(table_order, i, j)
        /\ index' = k
  /\ j' = 2 * j /\ k' = k + 1
  /\ UNCHANGED <<data, i, time, pc, results>>

\* Variation: line 159 is missing, the tie-break winner is not remembered.
InnerTieKeepsIndex ==
  /\ pc = "inner"
  /\ j <= i
  /\ AndBit(i, j)
  /\ LET penalty == CandidatePenalty(data, table, i, j, k, time)
     IN /\ ~Greater(table[i], penalty)
        /\ TieReplaces(table, table_order, i, j, penalty)
        /\ table_order' = CopyOrder(table_order, i, j)
  /\ j' = 2 * j /\ k' = k + 1
  /\ UNCHANGED <<data, table, i, index, time, pc, results>>

\* Lines 157-159: the candidate ties and wins the tie-break.
InnerTie ==
  /\ pc = "inner"
  /\ j <= i
  /\ AndBit(i, j)
  /\ LET penalty == CandidatePenalty(data, table, i, j, k, time)
     IN /\ ~Greater(table[i], penalty)
        /\ TieReplaces(table, table_order, i, j, penalty)
        /\ table_order' = CopyOrder(table_order, i, j)
        /\ index' = k
  /\ j' = 2 * j /\ k' = k + 1
  /\ UNCHANGED <<data, table, i, time, pc, results>>

\* Lines 153-161: the candidate is worse, or ties and loses the tie-break.
InnerKeep ==
  /\ pc = "inner"
  /\ j <= i
  /\ AndBit(i, j)
  /\ LET penalty == CandidatePenalty(data, table, i, j, k, time)
     IN /\ ~Greater(table[i], penalty)
        /\ ~TieReplaces(table, table_order, i, j, penalty)
  /\ j' = 2 * j /\ k' = k + 1
  /\ UNCHANGED <<data, table, table_order, i, index, time, pc, results>>

\* Line 163: the inner loop is over; the last task's id is appended.
AppendLast ==
  /\ pc = "inner"
  /\ j > i
  /\ table_order' = AppendId(table_order, i, data[index + 1].id)
  /\ i' = i + 1
  /\ pc' = "outer"
  /\ UNCHANGED <<data, table, j, k, index, time, results>>

\* Line 165: return table_order[-1].
Return ==
  /\ pc = "outer"
  /\ i >= Pow2(N)
  /\ results' = Append(results, LastOrder(table_order))
  /\ pc' = "done"
  /\ UNCHANGED <<data, table, table_order, i, j, k, index, time>>

\* Another call of PD_Algorithm on the same data.
SolveAgain ==
  /\ pc = "done"
  /\ Len(results) < MaxSolves
  /\ pc' = "start"
  /\ UNCHANGED <<data, table, table_order, i, j, k, index, time, results>>

Next ==
  \/ Start
  \/ OuterBegin
  \/ InnerSkip
  \/ InnerImprove
  \/ InnerTie
  \/ InnerKeep
  \/ AppendLast
  \/ Return

Spec == Init /\ [][Next]_vars

NextRepeat == Next \/ SolveAgain

SpecRepeat == Init /\ [][NextRepeat]_vars

-----------------------------------------------------------------------------
\* Reference notions the properties are stated with

\* The order returned by the latest call.
Returned == results[Len(results)]

\* Positions (0-based) of the tasks of a mask.
Members(mask) == {n \in 0..(N - 1) : BitSet(mask, n)}

Ids(mask) == {data[n + 1].id : n \in Members(mask)}

FullMask == Pow2(N) - 1

RECURSIVE Perms(_)
Perms(S) ==
  IF S = {} THEN {<<>>}
  ELSE UNION {{Append(o, x) : o \in Perms(S \ {x})} : x \in S}

Range(s) == {s[n] : n \in 1..Len(s)}

NoDuplicates(s) == \A a, b \in 1..Len(s) : a # b => s[a] # s[b]

\* Total penalty of running the tasks with the listed ids in that order.
OrderPenalty(order) == getPenalty(Reorder(data, order))

\* Exhaustive search: the least total penalty over all orderings of a mask.
MinPenalty(mask) ==
  LET all == {OrderPenalty(o) : o \in Perms(Ids(mask))}
  IN CHOOSE v \in all : \A u \in all : v <= u

\* The outer-loop iteration of mask m is over (mask 0 has none).
Completed(m) ==
  /\ pc \in {"outer", "inner", "done"}
  /\ m \in DOMAIN table
  /\ m < i

-----------------------------------------------------------------------------
\* C1 (optimality): the total penalty of the returned order, computed by
\* getPenalty on the tasks in that order, is the minimum over all N!
\* permutations of the tasks.
C1_Optimality ==
  pc = "done" => OrderPenalty(Returned) = MinPenalty(FullMask)

\* The three-job scenario is solved, and some permutation of it is strictly
\* worse than the returned order.
C1_Witness ==
  /\ pc = "done"
  /\ data = Scenario
  /\ \E o \in Perms(Ids(FullMask)) : OrderPenalty(o) > OrderPenalty(Returned)

\* C2 (completeness): the returned order has length N, contains every input
\* id and contains no id twice.
C2_Completeness ==
  pc = "done" =>
    /\ Len(Returned) = N
    /\ Range(Returned) = Ids(FullMask)
    /\ NoDuplicates(Returned)

\* Three tasks are solved and the returned order is not the input order.
C2_Witness ==
  /\ pc = "done"
  /\ N = 3
  /\ Returned # <<0, 1, 2>>

\* C4 (empty instance): with no tasks the call terminates, returns the empty
\* order, and getPenalty of the empty sequence is 0.
C4_EmptyInstance ==
  N = 0 =>
    /\ pc = "done" \/ ENABLED Next
    /\ pc = "done" => Returned = <<>> /\ OrderPenalty(Returned) = 0

C4_Witness ==
  /\ N = 0
  /\ pc = "done"
  /\ results = << <<>> >>

\* C6 (per-subset optimality): once the iteration of mask m is over, table[m]
\* is the least total penalty over all orderings of the tasks of m run
\* back-to-back from time 0.
C6_SubsetOptimality ==
  \A m \in DOMAIN table : Completed(m) => table[m] = Fin(MinPenalty(m))

\* A completed mask of at least two tasks whose orderings differ in penalty.
C6_Witness ==
  \E m \in DOMAIN table :
    /\ Completed(m)
    /\ Cardinality(Members(m)) >= 2
    /\ \E o \in Perms(Ids(m)) : OrderPenalty(o) > table[m].val

\* C7 (witness consistency): for every completed mask, table_order[mask] is an
\* ordering of exactly the ids of the tasks of the mask, and running the tasks
\* in that order from time 0 costs table[mask].
C7_WitnessConsistency ==
  \A m \in DOMAIN table : Completed(m) =>
    /\ Len(table_order[m]) = Cardinality(Members(m))
    /\ Range(table_order[m]) = Ids(m)
    /\ NoDuplicates(table_order[m])
    /\ ~table[m].inf
    /\ OrderPenalty(table_order[m]) = table[m].val

\* A completed mask of three tasks with a positive penalty whose order is not
\* the input order.
C7_Witness ==
  /\ Completed(7)
  /\ table[7].val > 0
  /\ table_order[7] # <<0, 1, 2>>

\* C9 (predecessors are computed): whenever a candidate of mask i is about to
\* be evaluated, table[i-j] belongs to a completed mask and is finite, so the
\* infinite-predecessor branch of line 150 is never taken.
C9_PredecessorFinite ==
  (pc = "inner" /\ j <= i /\ AndBit(i, j)) =>
    /\ Completed(i - j)
    /\ ~table[i - j].inf

\* The candidate of a one-task mask is about to read table[0].
C9_Witness ==
  /\ pc = "inner"
  /\ j <= i
  /\ AndBit(i, j)
  /\ i = j
  /\ i > 1

-----------------------------------------------------------------------------
\* Lexicographic order on id sequences, stated without reference to the
\* code's comparison: a < b iff a is a proper prefix of b, or a has the
\* smaller element at the first position where they differ.
LexLess(a, b) ==
  \/ /\ Len(a) < Len(b)
     /\ \A n \in 1..Len(a) : a[n] = b[n]
  \/ \E n \in 1..Len(a) :
       /\ n <= Len(b)
       /\ a[n] < b[n]
       /\ \A m \in 1..(n - 1) : a[m] = b[m]

\* The candidate about to be evaluated ties with the kept best of mask i.
TieCandidate ==
  /\ pc = "inner"
  /\ j <= i
  /\ AndBit(i, j)
  /\ Equal(table[i], CandidatePenalty(data, table, i, j, k, time))

\* The step makes the candidate the kept one.
Replaced ==
  /\ index' = k
  /\ table_order'[i] = table_order[i - j]

\* The step leaves the kept candidate alone.
Kept ==
  /\ index' = index
  /\ table_order'[i] = table_order[i]

\* Penalty of the candidate "task at position pos last" of a completed mask.
LastPenalty(m, pos) ==
  table[m - Pow2(pos)].val + getTaskPenalty(data[pos + 1], getTotalTime(data, m))

\* The positions whose candidate has the least penalty for mask m.
BestLast(m) ==
  {pos \in Members(m) : \A q \in Members(m) : LastPenalty(m, pos) <= LastPenalty(m, q)}

\* The witness of a completed mask is built from the least-penalty candidate
\* with the lexicographically smallest predecessor order.
LexLeastWins ==
  \A m \in DOMAIN table : (Completed(m) /\ m >= 1) =>
    \E pos \in BestLast(m) :
      /\ table_order[m] = Append(table_order[m - Pow2(pos)], data[pos + 1].id)
      /\ \A q \in BestLast(m) \ {pos} :
           LexLess(table_order[m - Pow2(pos)], table_order[m - Pow2(q)])

\* C3 as stated (tie-break direction): on an exact tie the candidate replaces
\* the kept one iff its predecessor order is lexicographically GREATER than
\* the kept predecessor order.
C3_AsStated ==
  [][TieCandidate =>
       (Replaced <=> LexLess(table_order[i], table_order[i - j]))]_vars

\* C3 as amended: on an exact tie the candidate replaces the kept one iff its
\* predecessor order is lexicographically SMALLER than the kept predecessor
\* order (otherwise the kept one stays); so among the candidates of minimum
\* penalty the one with the lexicographically smallest predecessor order
\* determines table_order[mask].
C3_TieBreakSmaller ==
  [][/\ TieCandidate =>
          /\ Replaced <=> LexLess(table_order[i - j], table_order[i])
          /\ Replaced \/ Kept
     /\ LexLeastWins']_vars

\* A tying candidate whose predecessor order is smaller than the kept one.
C3_Witness ==
  /\ TieCandidate
  /\ LexLess(table_order[i - j], table_order[i])
  /\ Len(table_order[i]) >= 2

\* C8 (finality and fill order): masks are processed in increasing order, a
\* step of the iteration of mask i writes only table[i] and table_order[i],
\* and the entries of completed masks (the predecessors among them) never
\* change again.
C8_Finality ==
  [][pc # "start" =>
       /\ i' = i \/ i' = i + 1
       /\ DOMAIN table' = DOMAIN table
       /\ DOMAIN table_order' = DOMAIN table_order
       /\ \A m \in DOMAIN table :
            (m # i \/ Completed(m)) =>
              /\ table'[m] = table[m]
              /\ table_order'[m] = table_order[m]]_vars

\* The id of the last task has just been appended to the order of mask 3,
\* whose predecessor order is a one-element list.
C8_Witness ==
  /\ pc = "outer"
  /\ i = 4
  /\ Len(table_order[3 - Pow2(index)]) = 1
  /\ table_order[3] = Append(table_order[3 - Pow2(index)], data[index + 1].id)

\* C5 (determinism): all calls on the same data return the same order and
\* hence the same total penalty, and a call starts from tables that hold
\* nothing of an earlier call.
C5_Determinism ==
  /\ \A a, b \in 1..Len(results) :
       /\ results[a] = results[b]
       /\ OrderPenalty(results[a]) = OrderPenalty(results[b])
  /\ (pc = "outer" /\ i = 1) =>
       \A m \in DOMAIN table :
         /\ table[m] = IF m = 0 THEN Fin(0) ELSE Inf
         /\ table_order[m] = <<>>

\* Two calls have returned on two tasks with identical parameters (either
\* order is optimal).
C5_Witness ==
  /\ pc = "done"
  /\ Len(results) = 2
  /\ N = 2
  /\ data[1].p = data[2].p /\ data[1].w = data[2].w /\ data[1].d = data[2].d
  /\ data[1].w > 0 /\ data[1].p > data[1].d

-----------------------------------------------------------------------------
\* The variant of PD_Algorithm that C10 speaks of: the same loops, run to
\* completion on a job set, where with full = TRUE the tie-break compares the
\* full candidate sequences (predecessor order plus the candidate's id) and
\* with full = FALSE it is the code's own test.

TieTest(tasks, tbl, ord, mask, pos, idx, penalty, full) ==
  IF full
  THEN /\ Equal(tbl[mask], penalty)
       /\ ListGreater(Append(ord[mask], tasks[idx + 1].id),
                      Append(ord[mask - Pow2(pos)], tasks[pos + 1].id))
  ELSE TieReplaces(tbl, ord, mask, Pow2(pos), penalty)

RECURSIVE RunInner(_, _, _, _, _, _, _)
RunInner(tasks, tbl, ord, mask, pos, idx, full) ==
  IF Pow2(pos) > mask
  THEN [table |-> tbl, order |-> AppendId(ord, mask, tasks[idx + 1].id)]
  ELSE IF ~AndBit(mask, Pow2(pos))
  THEN RunInner(tasks, tbl, ord, mask, pos + 1, idx, full)
  ELSE LET penalty == CandidatePenalty(tasks, tbl, mask, Pow2(pos), pos,
                                       getTotalTime(tasks, mask))
       IN IF Greater(tbl[mask], penalty)
          THEN RunInner(tasks, [tbl EXCEPT ![mask] = Fin(penalty)],
                        CopyOrder(ord, mask, Pow2(pos)), mask, pos + 1, pos, full)
          ELSE IF TieTest(tasks, tbl, ord, mask, pos, idx, penalty, full)
          THEN RunInner(tasks, tbl, CopyOrder(ord, mask, Pow2(pos)),
                        mask, pos + 1, pos, full)
          ELSE RunInner(tasks, tbl, ord, mask, pos + 1, idx, full)

RECURSIVE RunOuter(_, _, _, _, _)
RunOuter(tasks, tbl, ord, mask, full) ==
  IF mask >= Pow2(Len(tasks))
  THEN ord[Pow2(Len(tasks)) - 1]
  ELSE LET r == RunInner(tasks, tbl, ord, mask, 0, 0, full)
       IN RunOuter(tasks, r.table, r.order, mask + 1, full)

RunToEnd(tasks, full) ==
  RunOuter(tasks, NewTable(Len(tasks)), NewTableOrder(Len(tasks)), 1, full)

\* The run to completion with the code's own test is the state machine's run.
RunAgrees == pc = "done" => Returned = RunToEnd(data, FALSE)

\* C10 as stated (tie-break operands matter): there is a job set with unique
\* ids on which the variant comparing full candidate sequences returns a
\* different order than PD_Algorithm (searched among all explored job sets,
\* the one being solved included).
C10_AsStated ==
  \E tasks \in Inputs \cup {data} :
    RunToEnd(tasks, TRUE) # RunToEnd(tasks, FALSE)

\* C10 as amended: on every job set with unique ids the variant comparing
\* full candidate sequences returns the same order as PD_Algorithm, because
\* at every tie the two predecessor orders list different id sets, so they
\* differ before the appended id and both comparisons give the same answer.
C10_SameOrder ==
  /\ pc = "done" => Returned = RunToEnd(data, TRUE)
  /\ TieCandidate =>
       /\ Range(table_order[i]) # Range(table_order[i - j])
       /\ ListGreater(Append(table_order[i], data[index + 1].id),
                      Append(table_order[i - j], data[k + 1].id))
            <=> ListGreater(table_order[i], table_order[i - j])

\* A call has returned on three tasks after at least one tie was replaced
\* (the returned order differs from what keeping the first candidate gives).
C10_Witness ==
  /\ pc = "done"
  /\ N = 3
  /\ \E pos \in BestLast(FullMask) :
       /\ pos # Returned[3]
       /\ pos < Returned[3]

====
